---- MODULE Spec2Model ----
(***************************************************************************)
(* Ticket-To-Ride-Scorer: the supervised-learning pipeline of              *)
(* src/training.py (T2RDataset, Classifier, the two CNN variants).         *)
(*                                                                         *)
(* Two entry points are modelled.  SpecDataset drives a T2RDataset         *)
(* directly: construction over a directory tree, then split_data with any  *)
(* train fraction.  Spec drives train_models' flow: Classifier             *)
(* construction, then Classifier.train batch by batch.                     *)
(*                                                                         *)
(* Strings that the code takes apart (file names) are sequences of         *)
(* one-character strings.  Python floats are IEEE doubles: a double is a   *)
(* natural-number significand (little-endian bit sequence) over a power of *)
(* two, and the product train_percentage * dataset_size is rounded to 53   *)
(* significant bits as the hardware does.                                  *)
(***************************************************************************)
EXTENDS Integers, Sequences, FiniteSets, TLC

\* ------------------------------------------------------------------ bounds

\* Files in one directory tree of the enumerated (small) trees.
MaxFiles == 2
\* Index spaces up to this size are shuffled in every possible order; larger
\* ones by rotations and the reversal only.
MaxPermN == 2
\* Files of the one large tree (all named red-1, one folder).
BigFiles == 90

\* ------------------------------------------------------------ file names

DS_Store == <<".", "D", "S", "_", "S", "t", "o", "r", "e">>

blue == <<"b", "l", "u", "e">>
black == <<"b", "l", "a", "c", "k">>
green == <<"g", "r", "e", "e", "n">>
red == <<"r", "e", "d">>
yellow == <<"y", "e", "l", "l", "o", "w">>

\* The names a listing may hold: each colour with a suffix, a wrong-case
\* colour, an unknown prefix, two dashes, no dash at all (a bare colour and
\* another name), an empty prefix, and the OS artifact.
FileNames ==
    { blue \o <<"-", "1">>,
      black \o <<"-", "1">>,
      green \o <<"-", "1">>,
      red \o <<"-", "1", "-", "2">>,
      yellow \o <<"-", "1">>,
      <<"B", "l", "u", "e", "-", "1">>,
      <<"f", "o", "o", "-", "1">>,
      blue,
      <<"f", "o", "o", ".", "p">>,
      <<"-">> \o blue,
      DS_Store }

\* A directory entry: its name, and whether cv2.imread can decode it.
FileEntries ==
    {[name |-> n, ok |-> TRUE] : n \in FileNames}
        \cup {[name |-> blue \o <<"-", "1">>, ok |-> FALSE]}

FileSeqs == UNION {[1..m -> FileEntries] : m \in 0..MaxFiles}

Folder(files) == [name |-> red, files |-> files]

\* Root directories: empty; one folder; an OS artifact beside one folder; two
\* folders sharing the files in every way.
SmallTrees ==
    {<<>>}
        \cup {<<Folder(fs)>> : fs \in FileSeqs}
        \cup {<<[name |-> DS_Store, files |-> <<>>], Folder(fs)>> : fs \in FileSeqs}
        \cup UNION {{<<Folder(SubSeq(fs, 1, c)), Folder(SubSeq(fs, c + 1, Len(fs)))>> :
                        c \in 0..Len(fs)} : fs \in FileSeqs}

BigTree == <<Folder([i \in 1..BigFiles |-> [name |-> red \o <<"-", "1">>, ok |-> TRUE]])>>

\* --------------------------------------------------------- T2RDataset

color_mapping ==
    (blue :> 1) @@ (black :> 2) @@ (green :> 3) @@ (red :> 4) @@ (yellow :> 5)

\* dict.get(label, 0)
ColorIdSwapped(label) ==
    IF label \in DOMAIN color_mapping THEN 6 - color_mapping[label] ELSE 0

ColorId(label) ==
    IF label \in DOMAIN color_mapping THEN color_mapping[label] ELSE 0

\* str.split(sep): the parts between the separators, left to right.
RECURSIVE SplitAcc(_, _, _, _)
SplitAcc(s, sep, cur, parts) ==
    IF s = <<>> THEN Append(parts, cur)
    ELSE IF Head(s) = sep
         THEN SplitAcc(Tail(s), sep, <<>>, Append(parts, cur))
         ELSE SplitAcc(Tail(s), sep, Append(cur, Head(s)), parts)

StrSplit(s, sep) == SplitAcc(s, sep, <<>>, <<>>)

\* label = filename.split('-')[0]
Label(filename) == StrSplit(filename, "-")[1]

\* cv2.imread: the decoded image, or None (no exception) when decoding fails.
imread(src, entry) == [none |-> ~entry.ok, src |-> src]

\* cv2.resize raises cv2.error on None.
ResizeRaises(img) == img.none

RotationsThree == <<0, 90, 180>>

Rotations == <<0, 90, 180, 270>>

RECURSIVE AppendRotations(_, _, _, _)
AppendRotations(self, resized, filename, k) ==
    IF k > Len(Rotations) THEN self
    ELSE AppendRotations(
            [self EXCEPT
                !.data = Append(@, [resized EXCEPT !.rot = Rotations[k]]),
                !.targets = Append(@, ColorId(Label(filename)))],
            resized, filename, k + 1)

load_station_image(self, original_image, filename) ==
    IF ResizeRaises(original_image) THEN [self EXCEPT !.err = "cv2.error"]
    ELSE AppendRotations(self,
            [src |-> original_image.src, h |-> 100, w |-> 100, rot |-> 0],
            filename, 1)

load_train_image(self, original_image, filename) ==
    IF ResizeRaises(original_image) THEN [self EXCEPT !.err = "cv2.error"]
    ELSE [self EXCEPT
            !.data = Append(@, [src |-> original_image.src, h |-> 50, w |-> 125, rot |-> 0]),
            !.targets = Append(@, ColorId(Label(filename)))]

\* One iteration of load_data's inner loop: entry j of folder i.
LoadFile(self, dt, i, files, j) ==
    IF self.err # "none" \/ files[j].name = DS_Store THEN self
    ELSE LET original_image == imread(<<i, j>>, files[j])
         IN  IF dt = "station"
                 THEN load_station_image(self, original_image, files[j].name)
             ELSE IF dt = "train"
                 THEN load_train_image(self, original_image, files[j].name)
             ELSE self

\* The inner loop over entries lo..hi of one folder's listing, in order (the
\* range is halved so that a long listing does not nest deeply); an exception
\* ends the construction.
RECURSIVE LoadFolder(_, _, _, _, _, _)
LoadFolder(self, dt, i, files, lo, hi) ==
    IF lo > hi THEN self
    ELSE IF lo = hi THEN LoadFile(self, dt, i, files, lo)
    ELSE LET mid == (lo + hi) \div 2
         IN  CHOOSE out \in {LoadFolder(first, dt, i, files, mid + 1, hi) :
                                first \in {LoadFolder(self, dt, i, files, lo, mid)}} : TRUE

RECURSIVE LoadTree(_, _, _, _)
LoadTree(self, dt, tree, i) ==
    IF self.err # "none" \/ i > Len(tree) THEN self
    ELSE IF tree[i].name = DS_Store THEN LoadTree(self, dt, tree, i + 1)
    ELSE LoadTree(LoadFolder(self, dt, i, tree[i].files, 1, Len(tree[i].files)), dt, tree, i + 1)

\* T2RDataset.__init__: empty lists, then load_data(dtype).
T2RDataset(tree, dt) ==
    LoadTree([data |-> <<>>, targets |-> <<>>, err |-> "none"], dt, tree, 1)

\* ------------------------------------------------------- Python floats

\* Natural numbers too wide for a machine word: little-endian bit sequences.
HexBits(d) == <<d % 2, (d \div 2) % 2, (d \div 4) % 2, (d \div 8) % 2>>

RECURSIVE HexToBits(_)
HexToBits(h) == IF h = <<>> THEN <<>> ELSE HexToBits(Tail(h)) \o HexBits(Head(h))

RECURSIVE Trim(_)
Trim(b) == IF b = <<>> \/ b[Len(b)] = 1 THEN b ELSE Trim(SubSeq(b, 1, Len(b) - 1))

RECURSIVE NatToBits(_)
NatToBits(n) == IF n = 0 THEN <<>> ELSE <<n % 2>> \o NatToBits(n \div 2)

RECURSIVE BitsToNat(_)
BitsToNat(b) == IF b = <<>> THEN 0 ELSE Head(b) + 2 * BitsToNat(Tail(b))

RECURSIVE BitsInc(_)
BitsInc(b) ==
    IF b = <<>> THEN <<1>>
    ELSE IF Head(b) = 0 THEN <<1>> \o Tail(b) ELSE <<0>> \o BitsInc(Tail(b))

RECURSIVE MulSmall(_, _, _)
MulSmall(b, n, carry) ==
    IF b = <<>> THEN NatToBits(carry)
    ELSE LET v == Head(b) * n + carry
         IN  <<v % 2>> \o MulSmall(Tail(b), n, v \div 2)

\* A non-negative double: sig * 2^(-exp), sig of at most 53 significant bits.
\* float.hex() gives the published literals: 0.7 is 0x1.6666666666666p-1.
Double(hex, exp) == [sig |-> Trim(HexToBits(hex)), exp |-> exp]

\* IEEE 754 round-to-nearest, ties-to-even, of the exact value b * 2^(-exp).
Round53(b, exp) ==
    LET t == Trim(b)
        L == Len(t)
        k == L - 53
    IN  IF k <= 0 THEN [sig |-> t, exp |-> exp]
        ELSE LET kept == SubSeq(t, k + 1, L)
                 guard == t[k]
                 sticky == \E i \in 1..(k - 1) : t[i] = 1
                 up == guard = 1 /\ (sticky \/ kept[1] = 1)
             IN  [sig |-> IF up THEN BitsInc(kept) ELSE kept, exp |-> exp - k]

\* float * int: the int converts exactly, the product is rounded once.
FloatMulInt(x, n) == Round53(MulSmall(x.sig, n, 0), x.exp)

\* int(x): truncation toward zero (x is never negative here).
IntOfFloat(x) ==
    IF x.exp <= 0 THEN BitsToNat([i \in 1..(-x.exp) |-> 0] \o x.sig)
    ELSE BitsToNat(SubSeq(x.sig, x.exp + 1, Len(x.sig)))

\* The train fractions a caller passes: the double, and the decimal literal it
\* was written as (num / den).
Frac(hex, exp, num, den) == [x |-> Double(hex, exp), num |-> num, den |-> den]

DefaultFraction == Frac(<<1, 6, 6, 6, 6, 6, 6, 6, 6, 6, 6, 6, 6, 6>>, 53, 7, 10)

Fractions ==
    { Frac(<<0>>, 0, 0, 1),
      Frac(<<1, 0, 0, 0, 0, 0, 0, 0, 0, 0, 0, 0, 0, 0>>, 53, 1, 2),
      DefaultFraction,
      Frac(<<1, 0, 0, 0, 0, 0, 0, 0, 0, 0, 0, 0, 0, 0>>, 52, 1, 1) }

\* --------------------------------------------------------- random_split

\* list[i:j] for 0 <= i, j
PySlice(a, i, j) == SubSeq(a, i + 1, IF j < Len(a) THEN j ELSE Len(a))

RECURSIVE Sum(_)
Sum(s) == IF s = <<>> THEN 0 ELSE Head(s) + Sum(Tail(s))

\* torch.utils.data.random_split(dataset, lengths) with integer lengths:
\* ValueError unless they sum to len(dataset); else consecutive slices of
\* indices = randperm(sum(lengths)), cut at the accumulated lengths.
random_split(n, lengths, indices) ==
    IF Sum(lengths) # n
    THEN [err |-> "ValueError", subsets |-> <<>>]
    ELSE [err |-> "none",
          subsets |-> [k \in 1..Len(lengths) |->
                LET offset == Sum(SubSeq(lengths, 1, k))
                IN  PySlice(indices, offset - lengths[k], offset)]]

\* randperm(n) and a shuffling DataLoader's order: every order of 0..n-1 for
\* small n; for larger n the rotations and the reversal.
Perms(n) ==
    IF n <= MaxPermN
    THEN {p \in [1..n -> 0..(n - 1)] : \A i, j \in 1..n : p[i] = p[j] => i = j}
    ELSE {[i \in 1..n |-> (i - 1 + k) % n] : k \in 0..MaxPermN}
            \cup {[i \in 1..n |-> n - i]}

\* split_data's sizes: train_size = int(train_percentage * dataset_size),
\* test_size = dataset_size - train_size.
SplitSizes(dataset_size, train_percentage) ==
    LET train_size == IntOfFloat(FloatMulInt(train_percentage.x, dataset_size))
    IN  <<train_size, dataset_size - train_size>>

\* T2RDataset.split_data(train_percentage); indices is what randperm drew.
split_data(self, train_percentage, indices) ==
    random_split(Len(self.data), SplitSizes(Len(self.data), train_percentage), indices)

\* ------------------------------------------------- TrainsCNN, StationsCNN

Layer(op, a, b, k) == [op |-> op, a |-> a, b |-> b, k |-> k]

\* nn.Sequential(Conv2d(3, 15, kernel_size=3), ReLU(), MaxPool2d(2), ReLU(),
\*               Flatten(), Linear(21960, 512), ReLU(), Linear(512, 6))
TrainsCNN ==
    << Layer("Conv2d", 3, 15, 3), Layer("ReLU", 0, 0, 0), Layer("MaxPool2d", 0, 0, 2),
       Layer("ReLU", 0, 0, 0), Layer("Flatten", 0, 0, 0), Layer("Linear", 21960, 512, 0),
       Layer("ReLU", 0, 0, 0), Layer("Linear", 512, 6, 0) >>

StationsCNN ==
    << Layer("Conv2d", 3, 15, 3), Layer("ReLU", 0, 0, 0), Layer("MaxPool2d", 0, 0, 2),
       Layer("ReLU", 0, 0, 0), Layer("Flatten", 0, 0, 0), Layer("Linear", 36015, 512, 0),
       Layer("ReLU", 0, 0, 0), Layer("Linear", 512, 6, 0) >>

Layers(m) == IF m = "StationsCNN" THEN StationsCNN ELSE TrainsCNN

\* Output shape (without the batch dimension) of one layer on a C x H x W or
\* flat input; the empty shape when the layer rejects the input's shape.
Conv2dShapePadded(l, shape) ==
    IF Len(shape) # 3 \/ shape[1] # l.a THEN <<>>
    ELSE <<l.b, shape[2], shape[3]>>

\* no padding, stride 1: each spatial dimension shrinks by kernel_size - 1
Conv2dShape(l, shape) ==
    IF Len(shape) # 3 \/ shape[1] # l.a \/ shape[2] < l.k \/ shape[3] < l.k THEN <<>>
    ELSE <<l.b, shape[2] - l.k + 1, shape[3] - l.k + 1>>

\* stride = kernel_size, no padding, floor mode
MaxPool2dShape(l, shape) ==
    IF Len(shape) # 3 THEN <<>>
    ELSE <<shape[1], shape[2] \div l.k, shape[3] \div l.k>>

FlattenShape(shape) == <<shape[1] * shape[2] * shape[3]>>

LinearShape(l, shape) ==
    IF Len(shape) # 1 \/ shape[1] # l.a THEN <<>> ELSE <<l.b>>

LayerShape(l, shape) ==
    IF shape = <<>> THEN shape
    ELSE IF l.op = "Conv2d" THEN Conv2dShape(l, shape)
    ELSE IF l.op = "MaxPool2d" THEN MaxPool2dShape(l, shape)
    ELSE IF l.op = "Flatten" THEN (IF Len(shape) = 3 THEN FlattenShape(shape) ELSE <<>>)
    ELSE IF l.op = "Linear" THEN LinearShape(l, shape)
    ELSE shape

\* The shape after the first n layers of the Sequential (each layer is applied
\* to the value of its input, computed once).
RECURSIVE ForwardShape(_, _, _)
ForwardShape(layers, n, shape) ==
    IF n = 0 THEN shape
    ELSE CHOOSE out \in {LayerShape(layers[n], in) : in \in {ForwardShape(layers, n - 1, shape)}} :
            TRUE

\* transforms.ToTensor: an H x W x 3 image becomes a 3 x H x W tensor.
ToTensorShape(img) == <<3, img.h, img.w>>

\* self.model(x) raises RuntimeError when a layer rejects the shape.
ForwardRaises(m, img) ==
    ForwardShape(Layers(m), Len(Layers(m)), ToTensorShape(img)) = <<>>

\* ------------------------------------------------------------ Classifier

\* Files in a directory a Classifier is built on.
MaxRunFiles == 1
\* Epoch counts 1..MaxSmallEpochs and batch sizes 1..MaxBatchSize are tried
\* besides the defaults.
MaxSmallEpochs == 2
MaxBatchSize == 2
\* Batches of one run whose loss may come out non-finite.
MaxNonFinite == 1

\* Classifier.__init__: batch_size=32, num_epochs=10
DefaultBatchSize == 32
DefaultEpochs == 10
\* plot_results: np.arange(10) + 1
PlotPoints == 10

\* <<batch_size, num_epochs>>: the small ones in every combination, and the
\* defaults train_models runs with.
RunOptions ==
    ((1..MaxBatchSize) \X (1..MaxSmallEpochs)) \cup {<<DefaultBatchSize, DefaultEpochs>>}

\* The trees train_models' directories are drawn from: one folder of red-1
\* files, each decodable or not.
ClassifierTrees ==
    {<<Folder(fs)>> : fs \in UNION {[1..m ->
        {[name |-> red \o <<"-", "1">>, ok |-> TRUE],
         [name |-> red \o <<"-", "1">>, ok |-> FALSE]}] : m \in 0..MaxRunFiles}}

\* np.mean of a list of batch values: nan for an empty list, non-finite when
\* any element is.
Mean(xs) ==
    IF xs = <<>> \/ \E i \in 1..Len(xs) : xs[i] = "nonfinite" THEN "nonfinite" ELSE "finite"

\* A shuffling DataLoader's pass over a Subset: its indices in a fresh order.
Shuffles(subset) ==
    {[i \in 1..Len(subset) |-> subset[p[i] + 1]] : p \in Perms(Len(subset))}

\* The batch a DataLoader yields at position pos (drop_last=False).
Batch(order, pos, bs) ==
    SubSeq(order, pos + 1, IF pos + bs < Len(order) THEN pos + bs ELSE Len(order))

\* ------------------------------------------------------------- state

VARIABLES
    root_dir,           \* the directory tree under the root directory
    dtype,              \* 'station' or 'train'
    pc,                 \* where the program is
    err,                \* the exception that ended it, "none" while it runs
    data,               \* T2RDataset.data
    targets,            \* T2RDataset.targets
    train_percentage,   \* the fraction split_data was called with
    train_dataset,      \* Subset indices (train)
    test_dataset,       \* Subset indices (test)
    model,              \* which CNN the Classifier was given
    batch_size,
    num_epochs,
    sampler_rejects_empty,  \* the installed torch: RandomSampler refuses an empty dataset
    params,             \* the model parameters: the number of optimizer steps that made them
    epoch,              \* the epoch loop's variable
    order,              \* the running DataLoader pass: the shuffled indices
    pos,                \* samples of that pass already yielded
    epoch_lists,        \* epoch_losses, epoch_accuracies, epoch_test_losses, epoch_test_accuracies
    train_losses,
    train_accuracies,
    test_losses,
    test_accuracies,
    time_per_epoch,
    nonfinite_count,    \* batches so far whose loss was non-finite
    returned            \* what train() returned

inputs == <<root_dir, dtype, train_percentage>>

dataset == <<data, targets, train_dataset, test_dataset>>

dsvars == <<inputs, dataset, pc, err>>

cfgvars == <<model, batch_size, num_epochs, sampler_rejects_empty>>

loopvars == <<params, epoch, order, pos, epoch_lists, nonfinite_count>>

curves == <<train_losses, train_accuracies, test_losses, test_accuracies, time_per_epoch>>

\* The scorer window (userinterface.py): the ticket pool, the tickets given to
\* each colour, and where the chain of dialogs stands.
VARIABLES tickets, game_tickets, num_tickets, gui_pc, color, ticket_count,
          checkbox_vars

guivars == <<tickets, game_tickets, num_tickets, gui_pc, color, ticket_count,
             checkbox_vars>>

\* No scorer window exists while the training script runs.
NoGUI ==
    /\ tickets = {}
    /\ game_tickets = <<>>
    /\ num_tickets = <<>>
    /\ gui_pc = "none"
    /\ color = 0
    /\ ticket_count = 0
    /\ checkbox_vars = {}

vars == <<dsvars, cfgvars, loopvars, curves, returned, guivars>>

NoEpochLists == [losses |-> <<>>, accuracies |-> <<>>,
                 test_losses |-> <<>>, test_accuracies |-> <<>>]

NotReturned == [called |-> FALSE, none |-> TRUE, value |-> <<>>]

LoopInit ==
    /\ params = 0
    /\ epoch = 0
    /\ order = <<>>
    /\ pos = 0
    /\ epoch_lists = NoEpochLists
    /\ train_losses = <<>>
    /\ train_accuracies = <<>>
    /\ test_losses = <<>>
    /\ test_accuracies = <<>>
    /\ time_per_epoch = <<>>
    /\ nonfinite_count = 0
    /\ returned = NotReturned
    /\ NoGUI

\* --------------------------------------- a T2RDataset used on its own

DatasetInit ==
    /\ root_dir \in SmallTrees \cup {BigTree}
    /\ dtype \in {"station", "train"}
    /\ pc = "new"
    /\ err = "none"
    /\ data = <<>>
    /\ targets = <<>>
    /\ train_percentage = DefaultFraction
    /\ train_dataset = <<>>
    /\ test_dataset = <<>>
    /\ model = IF dtype = "station" THEN "StationsCNN" ELSE "TrainsCNN"
    /\ batch_size = 1
    /\ num_epochs = DefaultEpochs
    /\ sampler_rejects_empty = FALSE
    /\ LoopInit

\* custom_dataset = T2RDataset(root_dir, transform, dtype)
ConstructDataset ==
    /\ pc = "new"
    /\ LET self == T2RDataset(root_dir, dtype)
       IN  /\ data' = self.data
           /\ targets' = self.targets
           /\ err' = self.err
           /\ pc' = IF self.err = "none" THEN "constructed" ELSE "init_raised"
    /\ UNCHANGED <<root_dir, dtype, train_percentage, train_dataset, test_dataset>>
    /\ UNCHANGED <<cfgvars, loopvars, curves, returned>>
    /\ UNCHANGED guivars

\* train_dataset, test_dataset = custom_dataset.split_data(f): the sizes are
\* computed once, then random_split draws its permutation.
SplitData ==
    /\ pc = "constructed"
    /\ \E f \in Fractions : \E lengths \in {SplitSizes(Len(data), f)} :
        \E indices \in Perms(Len(data)) :
            LET r == random_split(Len(data), lengths, indices)
            IN  /\ train_percentage' = f
                /\ err' = r.err
                /\ pc' = IF r.err = "none" THEN "split" ELSE "init_raised"
                /\ train_dataset' = IF r.err = "none" THEN r.subsets[1] ELSE <<>>
                /\ test_dataset' = IF r.err = "none" THEN r.subsets[2] ELSE <<>>
    /\ UNCHANGED <<root_dir, dtype, data, targets>>
    /\ UNCHANGED <<cfgvars, loopvars, curves, returned>>
    /\ UNCHANGED guivars

DatasetNext == ConstructDataset \/ SplitData

SpecDataset == DatasetInit /\ [][DatasetNext]_vars

\* ------------------------------------- train_models: Classifier, train()

\* train_models pairs each CNN with its directory's dtype.
TrainModelsRuns == {<<"StationsCNN", "station">>, <<"TrainsCNN", "train">>}

Init ==
    /\ root_dir \in ClassifierTrees
    /\ \E run \in TrainModelsRuns : model = run[1] /\ dtype = run[2]
    /\ \E o \in RunOptions : batch_size = o[1] /\ num_epochs = o[2]
    /\ sampler_rejects_empty \in BOOLEAN
    /\ pc = "new"
    /\ err = "none"
    /\ data = <<>>
    /\ targets = <<>>
    /\ train_percentage = DefaultFraction
    /\ train_dataset = <<>>
    /\ test_dataset = <<>>
    /\ LoopInit

\* DataLoader(subset, batch_size, shuffle=True): builds a RandomSampler, which
\* (depending on the torch installed) raises ValueError on an empty subset.
DataLoaderRaises(subset) == sampler_rejects_empty /\ Len(subset) = 0

\* Classifier.__init__, load_data included: the dataset, the default split,
\* the two loaders.
ClassifierInit ==
    /\ pc = "new"
    /\ \E indices \in Perms(Len(T2RDataset(root_dir, dtype).data)) :
        LET self == T2RDataset(root_dir, dtype)
            r == split_data(self, DefaultFraction, indices)
            split_ok == self.err = "none" /\ r.err = "none"
            e == IF self.err # "none" THEN self.err
                 ELSE IF r.err # "none" THEN r.err
                 ELSE IF DataLoaderRaises(r.subsets[1]) \/ DataLoaderRaises(r.subsets[2])
                      THEN "ValueError"
                 ELSE "none"
        IN  /\ data' = self.data
            /\ targets' = self.targets
            /\ train_dataset' = IF split_ok THEN r.subsets[1] ELSE <<>>
            /\ test_dataset' = IF split_ok THEN r.subsets[2] ELSE <<>>
            /\ err' = e
            /\ pc' = IF e = "none" THEN "idle" ELSE "init_raised"
    /\ UNCHANGED <<root_dir, dtype, train_percentage>>
    /\ UNCHANGED <<cfgvars, loopvars, curves, returned>>
    /\ UNCHANGED guivars

\* Classifier.train_batch(x, y) on parameters p: the forward pass, the loss
\* (finite or not, as the numbers fall), backward, optimizer.step().
train_batch(p, m, img, loss) ==
    IF ForwardRaises(m, img)
    THEN [err |-> "RuntimeError", params |-> p, loss |-> loss]
    ELSE [err |-> "none", params |-> p + 1, loss |-> loss]

\* Classifier.accuracy(x, y): under no_grad, a fraction of the batch.
accuracy(p, m, img) == "finite"

LossOutcomes ==
    {"finite"} \cup (IF nonfinite_count < MaxNonFinite THEN {"nonfinite"} ELSE {})

\* plot_results(results): every curve is drawn against np.arange(10) + 1;
\* pyplot raises ValueError when x and y differ in length.
plot_results(results) ==
    IF \A i \in 1..Len(results) : Len(results[i]) = PlotPoints THEN "none" ELSE "ValueError"

\* train(): the five result lists start empty and the epoch loop is entered.
TrainCall ==
    /\ pc = "idle"
    /\ pc' = "epoch_loop"
    /\ epoch' = 0
    /\ UNCHANGED <<inputs, dataset, err, cfgvars, params, order, pos, epoch_lists,
                   nonfinite_count, curves, returned>>
    /\ UNCHANGED guivars

\* for epoch in range(num_epochs): start_time, empty epoch lists, and the
\* train loader's iterator with a fresh shuffle.
EpochStart ==
    /\ pc = "epoch_loop"
    /\ epoch < num_epochs
    /\ \E o \in Shuffles(train_dataset) : order' = o
    /\ pos' = 0
    /\ epoch_lists' = [epoch_lists EXCEPT !.losses = <<>>, !.accuracies = <<>>]
    /\ pc' = "train_pass"
    /\ UNCHANGED <<inputs, dataset, err, cfgvars, params, epoch, nonfinite_count,
                   curves, returned>>
    /\ UNCHANGED guivars

\* One iteration of `for batch in self.train_loader`.
TrainBatch ==
    /\ pc = "train_pass"
    /\ pos < Len(order)
    /\ \E loss \in LossOutcomes :
        LET batch == Batch(order, pos, batch_size)
            r == train_batch(params, model, data[batch[1] + 1], loss)
        IN  IF r.err # "none"
            THEN /\ pc' = "train_raised"
                 /\ err' = r.err
                 /\ UNCHANGED <<params, pos, epoch_lists, nonfinite_count>>
            ELSE /\ params' = r.params
                 /\ epoch_lists' = [epoch_lists EXCEPT
                        !.losses = Append(@, r.loss),
                        !.accuracies = Append(@, accuracy(r.params, model, data[batch[1] + 1]))]
                 /\ pos' = pos + Len(batch)
                 /\ nonfinite_count' = nonfinite_count + (IF r.loss = "nonfinite" THEN 1 ELSE 0)
                 /\ UNCHANGED <<pc, err>>
    /\ UNCHANGED <<inputs, dataset, cfgvars, epoch, order, curves, returned>>
    /\ UNCHANGED guivars

\* The train loader is exhausted: the epoch's train means are appended and
\* the test loader's iterator is made.
EndTrainPass ==
    /\ pc = "train_pass"
    /\ pos = Len(order)
    /\ train_losses' = Append(train_losses, Mean(epoch_lists.losses))
    /\ train_accuracies' = Append(train_accuracies, Mean(epoch_lists.accuracies))
    /\ epoch_lists' = [epoch_lists EXCEPT !.test_losses = <<>>, !.test_accuracies = <<>>]
    /\ \E o \in Shuffles(test_dataset) : order' = o
    /\ pos' = 0
    /\ pc' = "test_pass"
    /\ UNCHANGED <<inputs, dataset, err, cfgvars, params, epoch, nonfinite_count,
                   test_losses, test_accuracies, time_per_epoch, returned>>
    /\ UNCHANGED guivars

\* One iteration of `for ix, batch in enumerate(iter(self.test_loader))`:
\* test_loss = self.train_batch(x, y).
TestBatch ==
    /\ pc = "test_pass"
    /\ pos < Len(order)
    /\ \E loss \in LossOutcomes :
        LET batch == Batch(order, pos, batch_size)
            r == train_batch(params, model, data[batch[1] + 1], loss)
        IN  IF r.err # "none"
            THEN /\ pc' = "train_raised"
                 /\ err' = r.err
                 /\ UNCHANGED <<params, pos, epoch_lists, nonfinite_count>>
            ELSE /\ params' = r.params
                 /\ epoch_lists' = [epoch_lists EXCEPT
                        !.test_losses = Append(@, r.loss),
                        !.test_accuracies = Append(@, accuracy(r.params, model, data[batch[1] + 1]))]
                 /\ pos' = pos + Len(batch)
                 /\ nonfinite_count' = nonfinite_count + (IF r.loss = "nonfinite" THEN 1 ELSE 0)
                 /\ UNCHANGED <<pc, err>>
    /\ UNCHANGED <<inputs, dataset, cfgvars, epoch, order, curves, returned>>
    /\ UNCHANGED guivars

\* The test loader is exhausted: the epoch's test means and its duration are
\* appended, and the loop goes to the next epoch.
EndTestPass ==
    /\ pc = "test_pass"
    /\ pos = Len(order)
    /\ test_losses' = Append(test_losses, Mean(epoch_lists.test_losses))
    /\ test_accuracies' = Append(test_accuracies, Mean(epoch_lists.test_accuracies))
    /\ time_per_epoch' = Append(time_per_epoch, "seconds")
    /\ epoch' = epoch + 1
    /\ order' = <<>>
    /\ pos' = 0
    /\ pc' = "epoch_loop"
    /\ UNCHANGED <<inputs, dataset, err, cfgvars, params, epoch_lists,
                   nonfinite_count, train_losses, train_accuracies, returned>>
    /\ UNCHANGED guivars

\* After the loop: results = (...), self.plot_results(results), the prints,
\* and the function ends without a return statement.
EndTrain ==
    /\ pc = "epoch_loop"
    /\ epoch = num_epochs
    /\ LET e == plot_results(curves)
       IN  /\ err' = e
           /\ pc' = IF e = "none" THEN "done" ELSE "train_raised"
           /\ returned' = IF e = "none"
                          THEN [called |-> TRUE, none |-> TRUE, value |-> <<>>]
                          ELSE returned
    /\ UNCHANGED <<inputs, dataset, cfgvars, loopvars, curves>>
    /\ UNCHANGED guivars

\* The steps of one call of train().
TrainNext ==
    \/ TrainCall
    \/ EpochStart
    \/ TrainBatch
    \/ EndTrainPass
    \/ TestBatch
    \/ EndTestPass
    \/ EndTrain

Next == ClassifierInit \/ TrainNext

Spec == Init /\ [][Next]_vars

\* train() is one thread of control: once called it runs until it returns or
\* raises.
FairSpec == Spec /\ WF_vars(TrainNext)

\* ---------------------------------------------------------- properties

\* The file a sample was made from, by its place in the tree.
SourceName(img) == root_dir[img.src[1]].files[img.src[2]].name

\* The files load_data hands to the image loaders.
SourceFiles ==
    {<<i, j>> \in UNION {{<<i, j>> : j \in 1..Len(root_dir[i].files)} : i \in 1..Len(root_dir)} :
        root_dir[i].name # DS_Store /\ root_dir[i].files[j].name # DS_Store}

Loaded == {data[i].src : i \in 1..Len(data)}

Indices(subset) == {subset[i] : i \in 1..Len(subset)}

\* C1: while the test pass of an epoch runs, no step changes the model
\* parameters: they change only while train batches are processed.
C1_NoStepInTestPass == [][pc = "test_pass" => params' = params]_vars

\* C2: a split yields disjoint train and test index sets that together are
\* 0..N-1, with |train| = floor(train_fraction * N) and |test| = N - |train|.
C2_SplitPartition ==
    pc = "split" =>
        LET N == Len(data)
        IN  /\ Indices(train_dataset) \cap Indices(test_dataset) = {}
            /\ Indices(train_dataset) \cup Indices(test_dataset) = 0..(N - 1)
            /\ Cardinality(Indices(train_dataset)) = Len(train_dataset)
            /\ Cardinality(Indices(test_dataset)) = Len(test_dataset)
            /\ Len(train_dataset) = (train_percentage.num * N) \div train_percentage.den
            /\ Len(test_dataset) = N - Len(train_dataset)

\* What does hold of split_data: the partition, with |train| the truncation of
\* the rounded double product.
SplitPartitionOfDoubles ==
    pc = "split" =>
        LET N == Len(data)
        IN  /\ Indices(train_dataset) \cap Indices(test_dataset) = {}
            /\ Indices(train_dataset) \cup Indices(test_dataset) = 0..(N - 1)
            /\ Len(train_dataset) + Len(test_dataset) = N
            /\ Len(train_dataset) \in
                    {(train_percentage.num * N) \div train_percentage.den,
                     (train_percentage.num * N) \div train_percentage.den - 1}

\* C3: a station dataset holds four samples per loaded source file, appended
\* as consecutive groups (rotations 0, 90, 180, 270 of one source) that share
\* one label; a train dataset holds one sample per loaded source file; a
\* construction that completes has loaded every source file.
C3_FourRotationsPerSource ==
    /\ Len(targets) = Len(data)
    /\ pc \in {"constructed", "split"} => Loaded = SourceFiles
    /\ dtype = "station" =>
        /\ Len(data) = 4 * Cardinality(Loaded)
        /\ \A g \in 0..(Cardinality(Loaded) - 1) : \A r \in 1..4 :
            /\ data[4 * g + r].rot = <<0, 90, 180, 270>>[r]
            /\ data[4 * g + r].src = data[4 * g + 1].src
            /\ targets[4 * g + r] = targets[4 * g + 1]
    /\ dtype = "train" =>
        /\ Len(data) = Cardinality(Loaded)
        /\ \A i \in 1..Len(data) : data[i].rot = 0

C3_Witness ==
    /\ pc = "constructed"
    /\ dtype = "station"
    /\ Len(data) = 8
    /\ targets[4] # targets[5]
    /\ \E i \in 1..Len(root_dir) : root_dir[i].name = DS_Store

\* The text before the first '-' of a name; the whole name when it has none.
HasDash(nm) == \E k \in 1..Len(nm) : nm[k] = "-"

BeforeFirstDash(nm) ==
    IF HasDash(nm)
    THEN SubSeq(nm, 1, (CHOOSE k \in 1..Len(nm) :
                            nm[k] = "-" /\ \A m \in 1..(k - 1) : nm[m] # "-") - 1)
    ELSE nm

ColorTable(label) ==
    CASE label = <<"b", "l", "u", "e">> -> 1
      [] label = <<"b", "l", "a", "c", "k">> -> 2
      [] label = <<"g", "r", "e", "e", "n">> -> 3
      [] label = <<"r", "e", "d">> -> 4
      [] label = <<"y", "e", "l", "l", "o", "w">> -> 5
      [] OTHER -> 0

\* C4 as claimed: every stored label is the colour id of the text before the
\* first '-' (case-sensitive, 0 for any other text), a name with no '-'
\* yields 0, and every label is in 0..5.
C4_NoDashIsUnknown ==
    \A i \in 1..Len(data) :
        /\ targets[i] = ColorTable(BeforeFirstDash(SourceName(data[i])))
        /\ ~HasDash(SourceName(data[i])) => targets[i] = 0
        /\ targets[i] \in 0..5

\* C4: every stored label is the colour id of the text before the first '-'
\* (case-sensitive, 0 for any other text), where a name with no '-' is looked
\* up whole, so that it yields 0 unless it is exactly a colour name; every
\* label is in 0..5.
C4_LabelFromPrefix ==
    \A i \in 1..Len(data) :
        /\ targets[i] = ColorTable(BeforeFirstDash(SourceName(data[i])))
        /\ targets[i] \in 0..5

C4_Witness ==
    /\ pc = "constructed"
    /\ Len(data) = 2
    /\ ~HasDash(SourceName(data[1])) /\ targets[1] = 1
    /\ HasDash(SourceName(data[2])) /\ targets[2] = 0

\* The epoch records train() has completed: one per index all five lists hold.
Records ==
    [i \in 1..Len(time_per_epoch) |->
        <<train_losses[i], train_accuracies[i], test_losses[i], test_accuracies[i],
          time_per_epoch[i]>>]

\* C5: for every num_epochs >= 1 a call of train() completes (it does not end
\* in an exception) and returns the sequence of exactly num_epochs epoch
\* records, all five fields of each populated.
C5_TrainReturnsRecords ==
    /\ pc # "train_raised"
    /\ pc = "done" =>
        /\ ~returned.none
        /\ returned.value = Records
        /\ Len(returned.value) = num_epochs

\* C6: split_data fails with InvalidFractionError, and yields no subsets,
\* whenever the train fraction is outside the open interval (0, 1) or the
\* dataset is empty.
C6_InvalidFractionRejected ==
    LET called == pc = "split" \/ (pc = "init_raised" /\ err # "cv2.error")
        invalid == \/ train_percentage.num <= 0
                   \/ train_percentage.num >= train_percentage.den
                   \/ Len(data) = 0
    IN  (called /\ invalid) =>
            /\ pc = "init_raised"
            /\ err = "InvalidFractionError"
            /\ train_dataset = <<>> /\ test_dataset = <<>>

\* C7: when a file of the tree fails to decode, construction ends in a fatal
\* ImageLoadError: it does not complete, and the error raised is the load
\* error itself.
C7_DecodeFailureIsImageLoadError ==
    (pc # "new" /\ \E f \in SourceFiles : ~root_dir[f[1]].files[f[2]].ok) =>
        /\ pc = "init_raised"
        /\ err = "ImageLoadError"

\* C8: once a batch's loss has come out non-finite the run is over: no later
\* batch is processed, no epoch record is appended, and the run does not
\* reach Done.
C8_AbortOnNonFiniteLoss ==
    [][nonfinite_count > 0 =>
            /\ params' = params
            /\ curves' = curves
            /\ pc' # "done"]_vars

\* C9: train() moves Idle -> Training(i) -> Evaluating(i) -> ... -> Done;
\* within an epoch every train batch comes before every test batch, each pass
\* visits every sample of its subset exactly once, an epoch starts only when
\* the records of all earlier epochs are appended, and the run ends in Done
\* after exactly num_epochs epochs.
PassVisitsOnce(subset) ==
    /\ pos = Len(order)
    /\ Len(order) = Len(subset)
    /\ Indices(order) = Indices(subset)

EpochOrder ==
    /\ pc = "idle" /\ pc' # pc => pc' = "epoch_loop"
    /\ pc = "epoch_loop" /\ pc' # pc =>
        \/ pc' = "train_pass" /\ epoch < num_epochs /\ Len(Records) = epoch
        \/ pc' = "done" /\ epoch = num_epochs /\ Len(Records) = num_epochs
    /\ pc = "train_pass" /\ pc' # pc => pc' = "test_pass" /\ PassVisitsOnce(train_dataset)
    /\ pc = "train_pass" /\ pc' = pc => order' = order /\ pos' > pos /\ pos' <= Len(order)
    /\ pc = "test_pass" /\ pc' # pc =>
        pc' = "epoch_loop" /\ PassVisitsOnce(test_dataset) /\ epoch' = epoch + 1
    /\ pc = "test_pass" /\ pc' = pc => order' = order /\ pos' > pos /\ pos' <= Len(order)
    /\ pc \in {"done", "train_raised"} => pc' = pc

C9_EpochStateMachine ==
    /\ [][EpochOrder]_vars
    /\ (pc = "epoch_loop") ~> (pc = "done")

\* What does hold of the loop: the same order of passes and visits, with the
\* exception out of plot_results as a further way to leave the loop.
EpochOrderUntilPlot ==
    [][\/ EpochOrder
       \/ pc = "epoch_loop" /\ pc' = "train_raised" /\ epoch = num_epochs
            /\ Len(Records) = num_epochs /\ num_epochs # PlotPoints]_vars

\* C10: in both published variants the first dense layer's input width is the
\* width the pipeline produces from the entity's H x W input (3x3 convolution
\* without padding to 15 channels, then 2x2 max pooling):
\* 15 * floor((H-2)/2) * floor((W-2)/2), which is 21960 for the 50x125 train
\* input and 36015 for the 100x100 station input; the variants differ in
\* nothing else.
C10_FlattenedWidth ==
    /\ \A i \in 1..Len(data) :
        LET H == data[i].h
            W == data[i].w
            flat == ForwardShape(Layers(model), 5, ToTensorShape(data[i]))
        IN  /\ <<H, W>> = IF dtype = "train" THEN <<50, 125>> ELSE <<100, 100>>
            /\ flat = <<15 * ((H - 2) \div 2) * ((W - 2) \div 2)>>
            /\ flat = <<Layers(model)[6].a>>
            /\ flat = IF dtype = "train" THEN <<21960>> ELSE <<36015>>
            /\ ~ForwardRaises(model, data[i])
    /\ \A k \in 1..8 : k # 6 => TrainsCNN[k] = StationsCNN[k]
    /\ Len(TrainsCNN) = 8 /\ Len(StationsCNN) = 8
    /\ [TrainsCNN[6] EXCEPT !.a = 0] = [StationsCNN[6] EXCEPT !.a = 0]

C10_Witness ==
    /\ dtype = "station"
    /\ model = "StationsCNN"
    /\ pc = "done"
    /\ params > 0

\* ------------------------------- userinterface.py: the scorer's dialogs

\* Bound on the number picked in the dropdown (the code offers 1..41).
MaxTicketCount == 2

Boston == <<"B", "o", "s", "t", "o", "n">>

Miami == <<"M", "i", "a", "m", "i">>

Denver == <<"D", "e", "n", "v", "e", "r">>

ElPaso == <<"E", "l", " ", "P", "a", "s", "o">>

\* The (Source, Target) rows of game_data/destinations.csv, in sorted order.
SortedDestinations == << <<Boston, Miami>>, <<Denver, ElPaso>> >>

\* Python values: a tuple of strings, or one string.
PyTuple(items) == [type |-> "tuple", v |-> items]

PyStr(chars) == [type |-> "str", v |-> <<chars>>]

\* set(zip(df['Source'], df['Target']))
AllTickets == {PyTuple(SortedDestinations[i]) : i \in 1..Len(SortedDestinations)}

\* self.colors
colors == <<"red", "green", "blue", "black", "yellow">>

\* tkinter._stringify of a str holding neither braces nor backslashes: '{}'
\* for the empty string, braces around a value with whitespace or a leading
\* double quote, the value itself otherwise.
TclStringify(value) ==
    IF Len(value) = 0 THEN <<"{", "}">>
    ELSE IF value[1] = "\"" \/ \E k \in 1..Len(value) : value[k] = " "
         THEN <<"{">> \o value \o <<"}">>
         ELSE value

RECURSIVE JoinSpace(_)
\* ' '.join(nv)
JoinSpace(nv) ==
    IF Len(nv) = 0 THEN <<>>
    ELSE IF Len(nv) = 1 THEN nv[1]
    ELSE nv[1] \o <<" ">> \o JoinSpace(Tail(nv))

\* Misc._options: a tuple of str given for an option is sent to Tcl as one
\* string, the stringified items joined by spaces.
TclOption(value) ==
    IF value.type = "tuple"
    THEN JoinSpace([k \in 1..Len(value.v) |-> TclStringify(value.v[k])])
    ELSE value.v[1]

\* Checkbutton(frame, text=ticket) followed by checkbox.cget("text"): the widget
\* holds the string it was sent, and cget returns it as a str.
CheckboxCget(ticket) == PyStr(TclOption(ticket))

\* sorted(self.dest_tickets)
Sorted(dest_tickets) ==
    SelectSeq([i \in 1..Len(SortedDestinations) |-> PyTuple(SortedDestinations[i])],
              LAMBDA t : t \in dest_tickets)

\* The orders in which `for tick in selected_tickets` can visit a set.
IterationOrders(S) ==
    {o \in [1..Cardinality(S) -> S] : \A i, j \in 1..Cardinality(S) : o[i] = o[j] => i = j}

GUIInit ==
    /\ root_dir = <<>>
    /\ dtype = "station"
    /\ pc = "new"
    /\ err = "none"
    /\ data = <<>>
    /\ targets = <<>>
    /\ train_percentage = DefaultFraction
    /\ train_dataset = <<>>
    /\ test_dataset = <<>>
    /\ model = "StationsCNN"
    /\ batch_size = DefaultBatchSize
    /\ num_epochs = DefaultEpochs
    /\ sampler_rejects_empty = FALSE
    /\ params = 0
    /\ epoch = 0
    /\ order = <<>>
    /\ pos = 0
    /\ epoch_lists = NoEpochLists
    /\ train_losses = <<>>
    /\ train_accuracies = <<>>
    /\ test_losses = <<>>
    /\ test_accuracies = <<>>
    /\ time_per_epoch = <<>>
    /\ nonfinite_count = 0
    /\ returned = NotReturned
    /\ tickets = AllTickets
    /\ game_tickets = <<>>
    /\ num_tickets = <<>>
    /\ gui_pc = "main"
    /\ color = 0
    /\ ticket_count = 0
    /\ checkbox_vars = {}

trainvars == <<dsvars, cfgvars, loopvars, curves, returned>>

\* The check_image loop moves on from colour number `color`, the dict being gt
\* and the pool tk: the next colour gets an empty list and its own window with
\* a fresh IntVar; after the last colour calculate_score runs, and score_board
\* either returns (the root window is destroyed) or raises (an error box, and
\* the main window stays).
AfterColor(gt, tk) ==
    /\ tickets' = tk
    /\ checkbox_vars' = {}
    /\ IF color < Len(colors)
       THEN /\ color' = color + 1
            /\ game_tickets' = (colors[color + 1] :> <<>>) @@ gt
            /\ num_tickets' = (colors[color + 1] :> 0) @@ num_tickets
            /\ gui_pc' = "ticket_window"
       ELSE /\ color' = color
            /\ game_tickets' = gt
            /\ num_tickets' = num_tickets
            /\ \E scored \in BOOLEAN :
                  gui_pc' = IF scored THEN "destroyed" ELSE "main"

\* The Next button: check_image up to the first wait_window.
CheckImage ==
    /\ gui_pc = "main"
    /\ \E exists \in BOOLEAN :
          IF exists
          THEN /\ color' = 1
               /\ game_tickets' = (colors[1] :> <<>>) @@ game_tickets
               /\ num_tickets' = (colors[1] :> 0) @@ num_tickets
               /\ gui_pc' = "ticket_window"
               /\ UNCHANGED <<tickets, ticket_count, checkbox_vars>>
          ELSE UNCHANGED guivars
    /\ UNCHANGED trainvars

\* The dropdown of the colour's window sets its IntVar.
ChooseNumber ==
    /\ gui_pc = "ticket_window"
    /\ \E n \in 1..MaxTicketCount :
          num_tickets' = [num_tickets EXCEPT ![colors[color]] = n]
    /\ UNCHANGED <<tickets, game_tickets, gui_pc, color, ticket_count, checkbox_vars>>
    /\ UNCHANGED trainvars

\* The Enter button: select_tickets up to its wait_window.
EnterNumber ==
    /\ gui_pc = "ticket_window"
    /\ ticket_count' = num_tickets[colors[color]]
    /\ IF ticket_count' > 0
       THEN /\ gui_pc' = "selection_window"
            /\ checkbox_vars' = {}
            /\ UNCHANGED <<tickets, game_tickets, num_tickets, color>>
       ELSE AfterColor(game_tickets, tickets)
    /\ UNCHANGED trainvars

\* The colour's window is closed without Enter.
CloseTicketWindow ==
    /\ gui_pc = "ticket_window"
    /\ AfterColor(game_tickets, tickets)
    /\ UNCHANGED ticket_count
    /\ UNCHANGED trainvars

\* A click on the i-th checkbox of the selection window.
ToggleCheckbox ==
    /\ gui_pc = "selection_window"
    /\ \E i \in 1..Cardinality(tickets) :
          checkbox_vars' = IF i \in checkbox_vars THEN checkbox_vars \ {i}
                           ELSE checkbox_vars \cup {i}
    /\ UNCHANGED <<tickets, game_tickets, num_tickets, gui_pc, color, ticket_count>>
    /\ UNCHANGED trainvars

\* The Submit button: submit_tickets, then the rest of select_tickets once the
\* selection window is gone.
SubmitTickets ==
    /\ gui_pc = "selection_window"
    /\ IF Cardinality(checkbox_vars) # ticket_count
       THEN UNCHANGED guivars
       ELSE LET selected_tickets ==
                    {CheckboxCget(Sorted(tickets)[i]) : i \in checkbox_vars}
            IN  /\ \E o \in IterationOrders(selected_tickets) :
                      AfterColor([game_tickets EXCEPT ![colors[color]] = @ \o o],
                                 tickets \ selected_tickets)
                /\ UNCHANGED ticket_count
    /\ UNCHANGED trainvars

\* The selection window is closed without a valid Submit: selected_tickets is
\* still the empty set.
CloseSelectionWindow ==
    /\ gui_pc = "selection_window"
    /\ AfterColor(game_tickets, tickets)
    /\ UNCHANGED ticket_count
    /\ UNCHANGED trainvars

GUINext ==
    \/ CheckImage
    \/ ChooseNumber
    \/ EnterNumber
    \/ CloseTicketWindow
    \/ ToggleCheckbox
    \/ SubmitTickets
    \/ CloseSelectionWindow

SpecGUI == GUIInit /\ [][GUINext]_vars

\* The destination ticket a stored value stands for: the tuple itself, or the
\* tuple whose checkbox text the string is.
TicketOf(x) ==
    IF x.type = "tuple" THEN x
    ELSE CHOOSE t \in AllTickets : PyStr(TclOption(t)) = x

Assigned(c) == {TicketOf(game_tickets[c][i]) : i \in 1..Len(game_tickets[c])}

Pool == {TicketOf(t) : t \in tickets}

\* A colour holds as many tickets as the number entered for it, or none.
ExactNumberOrNone ==
    \A c \in DOMAIN game_tickets : Len(game_tickets[c]) \in {0, num_tickets[c]}

\* C11: across any sequence of per-colour selections no destination ticket is
\* assigned to two colours, the remaining pool together with the tickets in
\* game_tickets is the original ticket set, and each colour holds exactly the
\* chosen number of tickets or none.
C11_TicketsAssignedOnce ==
    /\ \A c1, c2 \in DOMAIN game_tickets :
          c1 # c2 => Assigned(c1) \cap Assigned(c2) = {}
    /\ Pool \cup UNION {Assigned(c) : c \in DOMAIN game_tickets} = AllTickets
    /\ ExactNumberOrNone

====
